---- MODULE Spec2Model ----
(***************************************************************************)
(* Model of src/lib.ts: Range, Take, LazyBuffer and Combinations.          *)
(*                                                                         *)
(* A Combinations object is the record [first, pool, indices]; its pool is *)
(* the LazyBuffer record [iterator, done, buffer]; the pool's iterator is  *)
(* the record [kind, items, cursor] of the input's iterator.  Each call of *)
(* Combinations.[Symbol.iterator]() makes a generator object; one request  *)
(* next() on it runs the generator body up to its next yield or return.    *)
(* JavaScript positions are 0-based; a TLA+ sequence s holds position p at *)
(* s[p + 1].                                                               *)
(***************************************************************************)
EXTENDS Integers, Sequences, FiniteSets, TLC

VARIABLES
    iterable,   \* the constructor's first argument (never changed afterwards)
    kArg,       \* the constructor's second argument (never stored by the code)
    first,      \* Combinations.first
    pool,       \* Combinations.pool : LazyBuffer
    indices,    \* Combinations.indices
    gens,       \* the generator objects made so far, oldest first
    object,     \* what the program constructed: "Combinations" or "LazyBuffer"
    call        \* the last method called on a LazyBuffer of its own

vars == <<iterable, kArg, first, pool, indices, gens, object, call>>

(* ------------------------------ bounds --------------------------------- *)

MaxN == 4            \* longest array input
MaxK == 3            \* largest k given to the constructor
MaxPull == 8         \* elements taken from the never-ending input
MaxGens == 2         \* generator objects per enumerator
MaxFetch == 6        \* calls of fetch on a LazyBuffer of its own
MaxShared == 3       \* most combinations of an input of interleaved generators

Values == {10, 11}   \* what an array input may hold

(* ------------------------- the input's iterator ------------------------ *)

\* What .value is on an iterator result whose done is true, and what an array
\* read outside its range gives.  Inputs hold naturals, so it is no element.
undefined == -1

\* Array.from(range) of new Range(start, end): start, start+1, ..., end-1.
collectRange(start, end) ==
    [p \in 1..(IF end > start THEN end - start ELSE 0) |-> start + p - 1]

\* iterable[Symbol.iterator](): an array's iterator, or the generator of
\* new Range(0, Infinity) for the input that never ends.
\* `polls` counts the calls of next() on it.
MakeIterator(it) == [kind |-> it.kind, items |-> it.items, cursor |-> 0, polls |-> 0]

\* iterator.next(): the result {done, value} and the iterator afterwards.
IteratorNext(it) ==
    IF it.kind = "naturals"
    THEN [done |-> FALSE, value |-> it.cursor,
          iterator |-> [it EXCEPT !.cursor = @ + 1, !.polls = @ + 1]]
    ELSE IF it.cursor < Len(it.items)
         THEN [done |-> FALSE, value |-> it.items[it.cursor + 1],
               iterator |-> [it EXCEPT !.cursor = @ + 1, !.polls = @ + 1]]
         ELSE [done |-> TRUE, value |-> undefined,
               iterator |-> [it EXCEPT !.polls = @ + 1]]

\* collect(new Take(iterator, num)): num times iterator.next().value, whatever
\* done says.  Gives the values and the iterator afterwards.
RECURSIVE collectTake(_, _)
collectTake(it, num) ==
    IF num <= 0
    THEN [values |-> <<>>, iterator |-> it]
    ELSE LET r == IteratorNext(it)
             rest == collectTake(r.iterator, num - 1)
         IN  [values |-> <<r.value>> \o rest.values, iterator |-> rest.iterator]

(* ------------------------------ LazyBuffer ----------------------------- *)

\* `fetchCalls` counts the calls of fetch, `fetchPolls` the calls of
\* iterator.next() that fetch made.
newLazyBuffer(it) ==
    [iterator |-> MakeIterator(it), done |-> FALSE, buffer |-> <<>>,
     fetchCalls |-> 0, fetchPolls |-> 0]

length(p) == Len(p.buffer)

\* get reading this.buffer[idx - 1].
getShifted(p, idx) ==
    IF idx >= 1 /\ idx <= Len(p.buffer) THEN p.buffer[idx] ELSE undefined

get(p, idx) == IF idx >= 0 /\ idx < Len(p.buffer) THEN p.buffer[idx + 1] ELSE undefined

\* fetch that polls the source and forgets to push the element.
fetchNoPush(p) ==
    IF p.done
    THEN [ok |-> FALSE, pool |-> [p EXCEPT !.fetchCalls = @ + 1]]
    ELSE LET nextItem == IteratorNext(p.iterator)
             q == [p EXCEPT !.fetchCalls = @ + 1, !.fetchPolls = @ + 1,
                            !.iterator = nextItem.iterator]
         IN  IF nextItem.done
             THEN [ok |-> FALSE, pool |-> [q EXCEPT !.done = TRUE]]
             ELSE [ok |-> TRUE, pool |-> q]

\* fetch without its opening test of this.done.
fetchNoDoneTest(p) ==
    LET nextItem == IteratorNext(p.iterator)
        q == [p EXCEPT !.fetchCalls = @ + 1, !.fetchPolls = @ + 1,
                       !.iterator = nextItem.iterator]
    IN  IF nextItem.done
        THEN [ok |-> FALSE, pool |-> [q EXCEPT !.done = TRUE]]
        ELSE [ok |-> TRUE, pool |-> [q EXCEPT !.buffer = Append(@, nextItem.value)]]

\* fetch that returns false at the source's end without setting this.done.
fetchNoMark(p) ==
    IF p.done
    THEN [ok |-> FALSE, pool |-> [p EXCEPT !.fetchCalls = @ + 1]]
    ELSE LET nextItem == IteratorNext(p.iterator)
             q == [p EXCEPT !.fetchCalls = @ + 1, !.fetchPolls = @ + 1,
                            !.iterator = nextItem.iterator]
         IN  IF nextItem.done
             THEN [ok |-> FALSE, pool |-> q]
             ELSE [ok |-> TRUE, pool |-> [q EXCEPT !.buffer = Append(@, nextItem.value)]]

\* fetch(): the returned boolean and the buffer afterwards.
fetch(p) ==
    IF p.done
    THEN [ok |-> FALSE, pool |-> [p EXCEPT !.fetchCalls = @ + 1]]
    ELSE LET nextItem == IteratorNext(p.iterator)
             q == [p EXCEPT !.fetchCalls = @ + 1, !.fetchPolls = @ + 1,
                            !.iterator = nextItem.iterator]
         IN  IF nextItem.done
             THEN [ok |-> FALSE, pool |-> [q EXCEPT !.done = TRUE]]
             ELSE [ok |-> TRUE, pool |-> [q EXCEPT !.buffer = Append(@, nextItem.value)]]

\* prefill without its test of this.done.
prefillNoDoneTest(p, k) ==
    LET bufferLength == length(p) IN
    IF k > bufferLength
    THEN LET delta == k - bufferLength
             taken == collectTake(p.iterator, delta)
             buf == p.buffer \o taken.values
         IN  [p EXCEPT !.iterator = taken.iterator, !.done = Len(buf) < k,
                       !.buffer = buf]
    ELSE p

prefill(p, k) ==
    LET bufferLength == length(p) IN
    IF ~p.done /\ k > bufferLength
    THEN LET delta == k - bufferLength
             taken == collectTake(p.iterator, delta)
             buf == p.buffer \o taken.values
         IN  [p EXCEPT !.iterator = taken.iterator, !.done = Len(buf) < k,
                       !.buffer = buf]
    ELSE p

(* ----------------------------- Combinations ---------------------------- *)

\* new Combinations(iterable, k)
newCombinations(it, k) ==
    [first |-> TRUE,
     indices |-> collectRange(0, k),
     pool |-> prefill(newLazyBuffer(it), k)]

getK(c) == Len(c.indices)

getN(c) == length(c.pool)

\* reset that makes a new buffer over the input instead of keeping the cache.
resetDiscardsCache(c, k) ==
    [first |-> TRUE,
     pool |-> prefill(newLazyBuffer(c.pool.iterator), k),
     indices |-> collectRange(0, k)]

\* reset that leaves the index tuple where the last traversal left it.
resetKeepsIndices(c, k) ==
    [first |-> TRUE, pool |-> prefill(c.pool, k), indices |-> c.indices]

reset(c, k) ==
    [first |-> TRUE, pool |-> prefill(c.pool, k), indices |-> collectRange(0, k)]

\* The inner while loop testing against indicesIdx + n - k + 1.
RECURSIVE scanLoose(_, _, _)
scanLoose(ind, indicesIdx, n) ==
    IF ind[indicesIdx + 1] = indicesIdx + n - Len(ind) + 1
    THEN IF indicesIdx <= 0 THEN -1 ELSE scanLoose(ind, indicesIdx - 1, n)
    ELSE indicesIdx

\* The inner while loop: from position indicesIdx downwards, the first position
\* that is not at its largest value indicesIdx + n - k; -1 when the loop returns.
RECURSIVE scan(_, _, _)
scan(ind, indicesIdx, n) ==
    IF ind[indicesIdx + 1] = indicesIdx + n - Len(ind)
    THEN IF indicesIdx <= 0 THEN -1 ELSE scan(ind, indicesIdx - 1, n)
    ELSE indicesIdx

\* The step without the loop that re-establishes the tail.
bumpNoTail(ind, indicesIdx) ==
    [j \in 1..Len(ind) |-> IF j - 1 = indicesIdx THEN ind[j] + 1 ELSE ind[j]]

\* The step whose tail loop writes indices[j] = indices[j - 1].
bumpFlatTail(ind, indicesIdx) ==
    [j \in 1..Len(ind) |->
        IF j - 1 < indicesIdx THEN ind[j] ELSE ind[indicesIdx + 1] + 1]

\* indices[indicesIdx] += 1, then indices[j] = indices[j - 1] + 1 for the
\* positions j after it.
bump(ind, indicesIdx) ==
    [j \in 1..Len(ind) |->
        IF j - 1 < indicesIdx THEN ind[j]
        ELSE ind[indicesIdx + 1] + 1 + (j - 1 - indicesIdx)]

\* The else branch that, with every position at its largest value, starts
\* over from the seed instead of returning.
advanceWraps(c) ==
    LET k == getK(c)
        last == k - 1
        p == IF c.indices[last + 1] = getN(c) - 1 THEN fetch(c.pool).pool ELSE c.pool
        at == scan(c.indices, last, length(p))
    IN  [returned |-> FALSE,
         c |-> [c EXCEPT !.pool = p,
                         !.indices = IF at < 0 THEN collectRange(0, k)
                                     ELSE bump(c.indices, at)]]

\* The else branch that fetches wherever the last index stands.
advanceAlwaysFetches(c) ==
    LET k == getK(c)
        last == k - 1
        p == fetch(c.pool).pool
        at == scan(c.indices, last, length(p))
    IN  IF at < 0
        THEN [returned |-> TRUE, c |-> [c EXCEPT !.pool = p]]
        ELSE [returned |-> FALSE,
              c |-> [c EXCEPT !.pool = p, !.indices = bump(c.indices, at)]]

\* The else branch of the generator's loop: the fetch, the scan and the step.
advance(c) ==
    LET k == getK(c)
        last == k - 1
        p == IF c.indices[last + 1] = getN(c) - 1 THEN fetch(c.pool).pool ELSE c.pool
        at == scan(c.indices, last, length(p))
    IN  IF at < 0
        THEN [returned |-> TRUE, c |-> [c EXCEPT !.pool = p]]
        ELSE [returned |-> FALSE,
              c |-> [c EXCEPT !.pool = p, !.indices = bump(c.indices, at)]]

\* The loop pass that never clears `first`.
loopBodyKeepsFirst(c) ==
    IF c.first
    THEN IF getK(c) > getN(c)
         THEN [returned |-> TRUE, c |-> c]
         ELSE [returned |-> FALSE, c |-> c]
    ELSE IF getN(c) = 0
         THEN [returned |-> TRUE, c |-> c]
         ELSE advance(c)

\* One pass of the generator's while (true) loop, which ends in a return or in
\* the yield.
loopBody(c) ==
    IF c.first
    THEN IF getK(c) > getN(c)
         THEN [returned |-> TRUE, c |-> c]
         ELSE [returned |-> FALSE, c |-> [c EXCEPT !.first = FALSE]]
    ELSE IF getN(c) = 0
         THEN [returned |-> TRUE, c |-> c]
         ELSE advance(c)

\* The value of the yield: indices.map(bufferIdx => pool.get(bufferIdx)).
yielded(c) == [j \in 1..Len(c.indices) |-> get(c.pool, c.indices[j])]

\* The generator body without its opening reset test.
resumeNoReset(c, pc) == loopBody(c)

\* One next() on a generator whose body is at `pc`: a generator not yet begun
\* first runs the reset test, then the loop.
resume(c, pc) ==
    loopBody(IF pc = "begin" /\ ~c.first THEN reset(c, getK(c)) ELSE c)

\* collect(combinations) on an enumerator in state c: a new generator, asked
\* for its next value until it returns; the values in order.  (It does not end
\* on the input that never ends.)
RECURSIVE drain(_, _, _)
drain(c, pc, acc) ==
    LET r == resume(c, pc) IN
    IF r.returned THEN acc ELSE drain(r.c, "yield", Append(acc, yielded(r.c)))

collect(c) == drain(c, "begin", <<>>)

(* ------------------------------ the state ------------------------------ *)

this == [first |-> first, pool |-> pool, indices |-> indices]

Inputs ==
    {[kind |-> "array", items |-> s] :
        s \in UNION {[1..n -> Values] : n \in 0..MaxN}}
    \cup {[kind |-> "naturals", items |-> <<>>]}

\* No LazyBuffer method has been called from outside.
\* `before` is the buffer the call found, `ok` what fetch returned, `value` what
\* get returned, `threw` whether the call ended in an exception.
NoCall ==
    [op |-> "none", arg |-> 0, before |-> <<>>, ok |-> FALSE, value |-> 0,
     threw |-> FALSE]

\* The state after new Combinations(it, k), for an input of `inputs`.
Constructed(inputs) ==
    \E it \in inputs, k \in -1..MaxK :
        LET c == newCombinations(it, k) IN
        /\ iterable = it
        /\ kArg = k
        /\ first = c.first
        /\ pool = c.pool
        /\ indices = c.indices
        /\ gens = <<>>
        /\ object = "Combinations"
        /\ call = NoCall

Init == Constructed(Inputs)

\* combinations[Symbol.iterator](): a new generator object; its body has not
\* begun.  `emitted` lists what it yielded, `tuples` the index tuples yielded.
Iterate ==
    /\ Len(gens) < MaxGens
    /\ gens' = Append(gens, [pc |-> "begin", emitted |-> <<>>, tuples |-> <<>>])
    /\ UNCHANGED <<iterable, kArg, first, pool, indices, object, call>>

\* generator.next() on generator g.
NextOn(g) ==
    /\ gens[g].pc # "closed"
    /\ iterable.kind = "naturals" => pool.iterator.cursor < MaxPull
    /\ LET r == resume(this, gens[g].pc) IN
       /\ first' = r.c.first
       /\ pool' = r.c.pool
       /\ indices' = r.c.indices
       /\ gens' = [gens EXCEPT ![g] =
                     IF r.returned
                     THEN [@ EXCEPT !.pc = "closed"]
                     ELSE [pc |-> "yield",
                           emitted |-> Append(@.emitted, yielded(r.c)),
                           tuples |-> Append(@.tuples, r.c.indices)]]
    /\ UNCHANGED <<iterable, kArg, object, call>>

\* A caller that traverses with one generator at a time: next() goes to the
\* newest generator; an older one is abandoned.
Request == gens # <<>> /\ NextOn(Len(gens))

Next == Iterate \/ Request

Spec == Init /\ [][Next]_vars

\* The array inputs, one of each length: no line of Combinations or LazyBuffer
\* tests an element, so which elements an input holds changes no step taken.
ArraysByLength ==
    {[kind |-> "array", items |-> [p \in 1..n |-> 10 + (p % 2)]] : n \in 0..MaxN}

\* A caller of an array input that keeps asking: a traversal that can take a
\* next() sooner or later takes it.
FairSpec == Constructed(ArraysByLength) /\ [][Next]_vars /\ WF_vars(Request)

(* ----------------------- a LazyBuffer of its own ----------------------- *)

\* The state after new LazyBuffer(it); no Combinations exists.
BufInit ==
    \E it \in Inputs :
        /\ iterable = it
        /\ pool = newLazyBuffer(it)
        /\ object = "LazyBuffer"
        /\ call = NoCall
        /\ kArg = 0
        /\ first = TRUE
        /\ indices = <<>>
        /\ gens = <<>>

\* buffer.fetch()
Fetch ==
    /\ pool.fetchCalls < MaxFetch
    /\ iterable.kind = "naturals" => pool.iterator.cursor < MaxPull
    /\ LET r == fetch(pool) IN
       /\ pool' = r.pool
       /\ call' = [op |-> "fetch", arg |-> 0, before |-> pool, ok |-> r.ok,
                   value |-> 0, threw |-> FALSE]
    /\ UNCHANGED <<iterable, kArg, first, indices, gens, object>>

\* buffer.prefill(k)
Prefill ==
    \E k \in -1..MaxK :
        /\ pool' = prefill(pool, k)
        /\ call' = [op |-> "prefill", arg |-> k, before |-> pool, ok |-> FALSE,
                    value |-> 0, threw |-> FALSE]
        /\ UNCHANGED <<iterable, kArg, first, indices, gens, object>>

\* buffer.get(idx): an array read, which returns whatever idx is.
Get ==
    \E idx \in -1..(MaxN + 1) :
        /\ call' = [op |-> "get", arg |-> idx, before |-> pool, ok |-> FALSE,
                    value |-> get(pool, idx), threw |-> FALSE]
        /\ UNCHANGED <<iterable, kArg, first, pool, indices, gens, object>>

BufNext == Fetch \/ Prefill \/ Get

BufSpec == BufInit /\ [][BufNext]_vars

\* Either object, each with the calls its interface takes: traversals and
\* restarts of a Combinations, fetch, prefill and get on a LazyBuffer.
LifeNext ==
    \/ object = "Combinations" /\ Next
    \/ object = "LazyBuffer" /\ BufNext

LifeSpec == (Init \/ BufInit) /\ [][LifeNext]_vars

(* --------------------- reference notions for the claims ---------------- *)

\* The binomial coefficient C(n, k), by Pascal's rule.
RECURSIVE Binom(_, _)
Binom(n, k) ==
    IF k = 0 THEN 1
    ELSE IF n = 0 THEN 0
    ELSE Binom(n - 1, k - 1) + Binom(n - 1, k)

\* Every strictly increasing k-tuple over lo..n-1, in lexicographic order:
\* those that begin with lo, then those that begin above lo.
RECURSIVE LexFrom(_, _, _)
LexFrom(lo, n, k) ==
    IF k = 0 THEN << <<>> >>
    ELSE IF lo >= n THEN <<>>
    ELSE LET tails == LexFrom(lo + 1, n, k - 1)
         IN  [j \in 1..Len(tails) |-> <<lo>> \o tails[j]]
             \o LexFrom(lo + 1, n, k)

StrictlyIncreasing(t) == \A j \in 1..(Len(t) - 1) : t[j] < t[j + 1]

LexLess(a, b) ==
    /\ Len(a) = Len(b)
    /\ \E j \in 1..Len(a) : a[j] < b[j] /\ \A h \in 1..(j - 1) : a[h] = b[h]

IsArray == iterable.kind = "array"

InputLen == Len(iterable.items)

\* Generator g has been made and its body has returned.
Closed(g) == g \in 1..Len(gens) /\ gens[g].pc = "closed"

(* ------------------------------- claims -------------------------------- *)

\* C1: for an array input of length n and 0 <= k <= n, the first traversal of
\* the new enumerator, once it has ended, has emitted exactly C(n, k)
\* combinations.
C1_CountIsBinomial ==
    (IsArray /\ 0 <= kArg /\ kArg <= InputLen /\ Closed(1))
        => Len(gens[1].emitted) = Binom(InputLen, kArg)

C1_Witness ==
    /\ IsArray /\ InputLen = 4 /\ kArg = 2 /\ Closed(1)
    /\ Len(gens[1].emitted) = 6

\* C2: for an array input of length n and 1 <= k <= n, the index tuples of the
\* first traversal, once it has ended, are all strictly increasing k-tuples
\* over 0..n-1 in lexicographic order, and every emitted array holds the input's
\* elements at the positions of its tuple.
C2_LexicographicList ==
    (IsArray /\ 1 <= kArg /\ kArg <= InputLen /\ Closed(1))
        => /\ gens[1].tuples = LexFrom(0, InputLen, kArg)
           /\ \A e \in 1..Len(gens[1].emitted) :
                gens[1].emitted[e] =
                    [j \in 1..kArg |-> iterable.items[gens[1].tuples[e][j] + 1]]

C2_Witness ==
    /\ IsArray /\ iterable.items = <<10, 11, 11, 10>> /\ kArg = 2 /\ Closed(1)
    /\ gens[1].tuples = <<<<0, 1>>, <<0, 2>>, <<0, 3>>, <<1, 2>>, <<1, 3>>, <<2, 3>>>>
    /\ gens[1].emitted[3] = <<10, 10>>

\* C3 (as claimed): an array input with fewer than k elements makes every
\* traversal emit nothing.
C3_TooShortEmitsNothing ==
    (IsArray /\ InputLen < kArg)
        => \A g \in 1..Len(gens) : gens[g].emitted = <<>>

\* C4: in every traversal each emitted index tuple is strictly increasing and
\* lexicographically greater than the one emitted before it, so no tuple is
\* emitted twice.
C4_IncreasingTuples ==
    \A g \in 1..Len(gens) :
        LET t == gens[g].tuples IN
        /\ \A e \in 1..Len(t) : StrictlyIncreasing(t[e])
        /\ \A e \in 1..(Len(t) - 1) : LexLess(t[e], t[e + 1])
        /\ \A e, f \in 1..Len(t) : e # f => t[e] # t[f]

C4_Witness ==
    \E g \in 1..Len(gens) :
        LET t == gens[g].tuples IN
        /\ Len(t) >= 3
        /\ t[2] = <<0, 1, 3>> /\ t[3] = <<0, 2, 3>>

\* C5: for an array input, when the first traversal has run to its end and a
\* second traversal of the same enumerator has run to its end, the second has
\* emitted the same combinations in the same order as the first.
C5_SecondTraversalSame ==
    (IsArray /\ Closed(1) /\ Closed(2))
        => /\ gens[2].emitted = gens[1].emitted
           /\ gens[2].tuples = gens[1].tuples

C5_Witness ==
    /\ IsArray /\ Closed(1) /\ Closed(2)
    /\ InputLen = 4 /\ kArg = 2
    /\ Len(gens[2].emitted) = 6

IsNaturals == iterable.kind = "naturals"

\* How many elements the input's iterator has handed out.
Pulled == pool.iterator.cursor

\* C6 (as claimed): on the never-ending input 0, 1, 2, ... with k = 2, the first
\* six index tuples are (0,1),(0,2),(0,3),(1,2),(1,3),(2,3) and 4 elements have
\* been pulled when the sixth has been emitted.
C6_SixFromFourPulled ==
    (IsNaturals /\ kArg = 2 /\ Len(gens) = 1 /\ Len(gens[1].tuples) = 6)
        => /\ gens[1].tuples =
                <<<<0, 1>>, <<0, 2>>, <<0, 3>>, <<1, 2>>, <<1, 3>>, <<2, 3>>>>
           /\ Pulled = 4

\* C6 (amended): on the never-ending input 0, 1, 2, ... with k = 2 the first
\* traversal does not end, its first six index tuples are (0,1),(0,2),(0,3),
\* (0,4),(0,5),(0,6), each emitted array holds those very numbers, and 7
\* elements have been pulled when the sixth has been emitted.
C6_SixFromSevenPulled ==
    (IsNaturals /\ kArg = 2 /\ Len(gens) = 1)
        => /\ gens[1].pc # "closed"
           /\ Len(gens[1].tuples) = 6
                => /\ gens[1].tuples =
                        <<<<0, 1>>, <<0, 2>>, <<0, 3>>, <<0, 4>>, <<0, 5>>, <<0, 6>>>>
                   /\ gens[1].emitted = gens[1].tuples
                   /\ Pulled = 7

C6_Witness ==
    /\ IsNaturals /\ kArg = 2 /\ Len(gens) = 1
    /\ Len(gens[1].tuples) = 6
    /\ Pulled = 7

\* C7: with k = 0, whatever the input, nothing is ever pulled from the source
\* (the buffer stays empty, the source is never polled to its end), a traversal
\* emits nothing but the empty tuple, at most once, and a traversal that has
\* ended has emitted it exactly once.
C7_ZeroEmitsEmptyOnce ==
    kArg = 0
        => /\ Pulled = 0 /\ pool.buffer = <<>> /\ ~pool.done
           /\ \A g \in 1..Len(gens) :
                /\ gens[g].emitted \in {<<>>, << <<>> >>}
                /\ gens[g].pc = "closed" => gens[g].emitted = << <<>> >>

C7_Witness ==
    /\ kArg = 0 /\ IsArray /\ InputLen = 3
    /\ Closed(1) /\ Closed(2)
    /\ gens[1].emitted = << <<>> >> /\ gens[2].emitted = << <<>> >>

\* C8: for an array input, a traversal begun after the one before it was
\* abandoned (not run to its end) starts from the seed 0..k-1 and, once it has
\* ended, has emitted what collecting a new enumerator over the same input
\* emits.
C8_RestartAfterAbandon ==
    \A g \in 2..Len(gens) :
        (IsArray /\ gens[g - 1].pc # "closed")
            => /\ gens[g].tuples # <<>> => gens[g].tuples[1] = collectRange(0, kArg)
               /\ gens[g].pc = "closed"
                    => gens[g].emitted = collect(newCombinations(iterable, kArg))

C8_Witness ==
    /\ IsArray /\ InputLen = 4 /\ kArg = 2 /\ Len(gens) = 2
    /\ gens[1].pc = "yield" /\ gens[1].tuples = <<<<0, 1>>, <<0, 2>>>>
    /\ Closed(2) /\ Len(gens[2].emitted) = 6

\* The most combinations one traversal of an array input can emit.
MaxEmitted ==
    LET k == IF kArg > 0 THEN kArg ELSE 0
        n == IF InputLen > k THEN InputLen ELSE k
    IN  Binom(n, k)

\* The newest generator has returned.
NewestClosed == gens # <<>> /\ gens[Len(gens)].pc = "closed"

\* C9: for an array input and any k, a traversal never emits more than
\* MaxEmitted combinations, and a traversal that is kept being asked for its
\* next value ends; the source running out shows only as that end.
C9_TraversalEnds ==
    /\ [](IsArray => \A g \in 1..Len(gens) : Len(gens[g].emitted) <= MaxEmitted)
    /\ (IsArray /\ gens # <<>>) ~> NewestClosed

C9_Witness ==
    /\ IsArray /\ InputLen = 4 /\ kArg = 3 /\ pool.done
    /\ Closed(1) /\ Len(gens[1].emitted) = 4

\* C10 (as claimed): a negative k gives no enumerator that emits a combination.
C10_NegativeKEmitsNothing ==
    kArg < 0 => \A g \in 1..Len(gens) : gens[g].emitted = <<>>

(* ------------------------- claims on LazyBuffer ------------------------ *)

\* Whether the input has an element at 0-based position c, and which.
SourceHas(c) == IsNaturals \/ c < InputLen

SourceAt(c) == IF IsNaturals THEN c ELSE iterable.items[c + 1]

\* C11 (as claimed): get with an index outside 0 <= index < length ends in an
\* exception instead of returning a value.
C11_GetOutOfRangeThrows ==
    (call.op = "get" /\ ~(0 <= call.arg /\ call.arg < length(call.before)))
        => call.threw

\* C12 (as claimed): prefill(target) on a buffer that is not exhausted and holds
\* fewer than target elements, over an array input with fewer than
\* target - length elements left, leaves the buffer holding what it held plus
\* the elements the input had left, shorter than target and marked exhausted.
C12_ShortPrefillMarksDone ==
    LET b == call.before
        left == InputLen - b.iterator.cursor
    IN  (/\ call.op = "prefill" /\ IsArray
         /\ ~b.done /\ length(b) < call.arg
         /\ left < call.arg - length(b))
            => /\ length(pool) < call.arg
               /\ pool.buffer = b.buffer \o SubSeq(iterable.items, b.iterator.cursor + 1, InputLen)
               /\ pool.done

\* C13: fetch on an exhausted buffer returns false, does not poll the source and
\* leaves the cache as it was; on a buffer not exhausted it polls the source
\* once and either appends the source's next element and returns true, or, the
\* source having none, marks the buffer exhausted, leaves the cache as it was
\* and returns false.
C13_FetchEffect ==
    call.op = "fetch" =>
        LET b == call.before IN
        IF b.done
        THEN /\ ~call.ok
             /\ pool.iterator = b.iterator
             /\ pool.buffer = b.buffer
             /\ pool.done
        ELSE /\ pool.iterator.polls = b.iterator.polls + 1
             /\ IF SourceHas(b.iterator.cursor)
                THEN /\ call.ok
                     /\ pool.buffer = Append(b.buffer, SourceAt(b.iterator.cursor))
                     /\ ~pool.done
                ELSE /\ ~call.ok
                     /\ pool.buffer = b.buffer
                     /\ pool.done

C13_Witness ==
    /\ call.op = "fetch" /\ call.before.done /\ ~call.ok
    /\ object = "LazyBuffer" /\ Len(pool.buffer) = 2
    /\ pool.iterator.polls = 3

\* C14: in every step (a fetch, a prefill, a step of a traversal, a restart)
\* the buffer does not get shorter, the positions it held keep their values,
\* and an exhausted buffer stays exhausted.
C14_BufferOnlyGrows ==
    [][/\ Len(pool'.buffer) >= Len(pool.buffer)
       /\ SubSeq(pool'.buffer, 1, Len(pool.buffer)) = pool.buffer
       /\ pool.done => pool'.done]_vars

C14_Witness ==
    /\ call.op = "prefill" /\ call.before.done
    /\ call.arg > length(call.before)
    /\ pool.done /\ pool.buffer = call.before.buffer /\ Len(pool.buffer) = 2

(* ---------------------- claims on the enumeration ---------------------- *)

\* The last (largest) index of every tuple emitted so far, by any generator.
EmittedLast ==
    UNION {{gens[g].tuples[e][Len(gens[g].tuples[e])] :
                e \in 1..Len(gens[g].tuples)} : g \in 1..Len(gens)}

\* The largest index emitted so far; for k >= 1 and after an emission.
MaxIdx == CHOOSE m \in EmittedLast : \A x \in EmittedLast : x <= m

\* How many values the largest emitted index has taken so far: k-1 with the
\* seed, then one more with every new maximum.
NewMaxima ==
    IF kArg < 1 \/ EmittedLast = {} THEN 0 ELSE MaxIdx - (kArg - 1) + 1

\* C15: in every state, so at every emission of every traversal, with n the
\* buffer length: every index is at least 0, indices[i] <= i + n - k, and the
\* last index is below n; the yield reads the buffer only inside 0..n-1.
C15_IndicesInRange ==
    LET k == Len(indices)
        n == length(pool)
    IN  /\ \A j \in 1..k : 0 <= indices[j] /\ indices[j] <= (j - 1) + n - k
        /\ k >= 1 => indices[k] < n
        /\ \A j \in 1..k : indices[j] \in 0..(n - 1)

C15_Witness ==
    /\ gens # <<>> /\ gens[Len(gens)].pc = "yield"
    /\ indices = <<2, 3>> /\ length(pool) = 4
    /\ gens[Len(gens)].tuples[Len(gens[Len(gens)].tuples)] = indices

\* C16: for an array input, once a traversal has run to its end, no later step
\* (a restart, a step of a later traversal) polls the source or changes the
\* buffer or its exhausted flag.
C16_RestartKeepsBuffer ==
    [][(IsArray /\ \E g \in 1..Len(gens) : gens[g].pc = "closed")
        => /\ pool'.buffer = pool.buffer
           /\ pool'.iterator = pool.iterator
           /\ pool'.done = pool.done]_vars

C16_Witness ==
    /\ IsArray /\ InputLen = 4 /\ kArg = 2
    /\ Closed(1) /\ Len(gens) = 2 /\ gens[2].pc = "yield"
    /\ gens[2].tuples = <<<<0, 1>>, <<0, 2>>, <<0, 3>>>>
    /\ pool.iterator.polls = 5 /\ Len(pool.buffer) = 4

\* C17 (as claimed): every poll of the source is made by fetch, and fetch has
\* been called at most once for each new maximum index reached.
C17_OnlyFetchPolls ==
    /\ pool.iterator.polls = pool.fetchPolls
    /\ pool.fetchCalls <= NewMaxima

\* C17 (amended): the source is polled by the constructor's prefill(k), k times
\* (through Take), and otherwise only by fetch; fetch has polled the source at
\* most once for each new maximum index reached.
C17_PrefillAndFetchPoll ==
    /\ pool.iterator.polls = (IF kArg > 0 THEN kArg ELSE 0) + pool.fetchPolls
    /\ pool.fetchPolls <= NewMaxima
    /\ pool.fetchPolls <= pool.fetchCalls

C17_Witness ==
    /\ IsArray /\ InputLen = 4 /\ kArg = 2 /\ Closed(1) /\ Len(gens) = 1
    /\ pool.iterator.polls = 5 /\ pool.fetchPolls = 3 /\ pool.fetchCalls = 5
    /\ NewMaxima = 3

\* C18: for k >= 1, once a combination has been emitted, the buffer length is
\* the larger of k and 1 + the largest index emitted so far by any traversal.
C18_BufferAsLongAsNeeded ==
    (kArg >= 1 /\ EmittedLast # {})
        => length(pool) = (IF kArg > 1 + MaxIdx THEN kArg ELSE 1 + MaxIdx)

C18_Witness ==
    /\ kArg = 2 /\ Len(gens) = 2
    /\ gens[1].tuples = <<<<0, 1>>, <<0, 2>>, <<0, 3>>>>
    /\ gens[2].tuples = <<<<0, 1>>, <<0, 2>>>>
    /\ length(pool) = 4 /\ ~pool.done

\* Some traversal has emitted two consecutive tuples that differ at a position
\* other than the last.
NonLastMoved ==
    \E g \in 1..Len(gens) :
        \E e \in 1..(Len(gens[g].tuples) - 1), j \in 1..(Len(indices) - 1) :
            gens[g].tuples[e + 1][j] # gens[g].tuples[e][j]

\* C19: a position other than the last has moved only if the buffer is
\* exhausted; while it is not, every emitted tuple is (0, 1, ..., k-2, m) and m
\* grows by one from each emission to the next of the same traversal.
C19_OnlyLastMovesUntilExhausted ==
    /\ NonLastMoved => pool.done
    /\ ~pool.done =>
        \A g \in 1..Len(gens) :
            LET t == gens[g].tuples
                k == Len(indices)
            IN  /\ \A e \in 1..Len(t), j \in 1..(k - 1) : t[e][j] = j - 1
                /\ \A e \in 1..(Len(t) - 1) : k >= 1 => t[e + 1][k] = t[e][k] + 1

C19_Witness ==
    /\ IsArray /\ InputLen = 4 /\ kArg = 3 /\ Len(gens) = 2
    /\ gens[1].tuples = <<<<0, 1, 2>>, <<0, 1, 3>>>>
    /\ gens[2].tuples = <<<<0, 1, 2>>, <<0, 1, 3>>, <<0, 2, 3>>>>
    /\ NonLastMoved /\ pool.done

(* ------------------- claims on interleaved generators ------------------ *)

\* A caller that holds several generators of the one enumerator and asks any
\* of them for its next value; each next() runs to its yield or return before
\* another begins (JavaScript runs one call at a time).
RequestAny == \E g \in 1..Len(gens) : NextOn(g)

SharedNext == Iterate \/ RequestAny

\* The enumerators whose traversal emits at most MaxShared combinations.
SharedInit == Constructed(ArraysByLength) /\ MaxEmitted <= MaxShared

\* A caller that keeps asking while some generator has not returned; which
\* generator it asks is its choice.
SharedSpec ==
    /\ SharedInit
    /\ [][SharedNext]_vars
    /\ WF_vars(RequestAny)

\* A step that makes no new generator is a next() on one generator that has
\* not returned: it either makes that generator return or makes it emit exactly
\* one more combination, and it touches no other generator.
RequestReturnsOrEmits ==
    Len(gens') = Len(gens) =>
        \E g \in 1..Len(gens) :
            /\ ~Closed(g)
            /\ \/ gens'[g] = [gens[g] EXCEPT !.pc = "closed"]
               \/ /\ gens'[g].pc = "yield"
                  /\ Len(gens'[g].emitted) = Len(gens[g].emitted) + 1
                  /\ gens'[g].tuples = Append(gens[g].tuples, indices')
            /\ gens' = [gens EXCEPT ![g] = gens'[g]]

\* C20: with next() requests on the generators of one enumerator interleaved in
\* any order, every emitted tuple is strictly increasing with all its indices
\* inside the buffer, as is the shared tuple in every state; and every
\* generator ends after finitely many requests on an array input: a generator
\* emits at most MaxEmitted combinations for each generator made, and each
\* request on a generator that has not returned makes it return or emit one
\* more, so it has returned by its (Len(gens) * MaxEmitted + 1)-th request.
C20_InterleavedGenerators ==
    /\ [](/\ StrictlyIncreasing(indices)
          /\ \A j \in 1..Len(indices) : indices[j] \in 0..(length(pool) - 1)
          /\ \A g \in 1..Len(gens) : \A e \in 1..Len(gens[g].tuples) :
                /\ StrictlyIncreasing(gens[g].tuples[e])
                /\ \A j \in 1..Len(gens[g].tuples[e]) :
                       gens[g].tuples[e][j] \in 0..(length(pool) - 1))
    /\ [](IsArray => \A g \in 1..Len(gens) :
                        Len(gens[g].emitted) <= Len(gens) * MaxEmitted)
    /\ [][RequestReturnsOrEmits]_vars
    /\ (IsArray /\ gens # <<>>) ~> (\A g \in 1..Len(gens) : Closed(g))

\* Two generators of a pair enumerator over three elements, asked in turn: the
\* second generator's first next() came after the first had emitted (1,2) and
\* reset the shared tuple, so the first generator's own output went back to
\* (0,2); the second generator then moved the position before the last to
\* emit (1,2); both have returned.
C20_Witness ==
    /\ IsArray /\ InputLen = 3 /\ kArg = 2 /\ Len(gens) = 2
    /\ Closed(1) /\ Closed(2)
    /\ gens[1].tuples = <<<<0, 1>>, <<0, 2>>, <<1, 2>>, <<0, 2>>>>
    /\ gens[2].tuples = <<<<0, 1>>, <<1, 2>>>>

====
